---- MODULE Spec2Model ----
(***************************************************************************)
(* A model of the template discovery and extraction pipeline of            *)
(* backend/azure_architectures.py and of the /scrape handler of            *)
(* backend/app.py.                                                         *)
(*                                                                         *)
(* Strings that are only compared are TLA+ strings.  A path "a/b/c" is the *)
(* sequence of its segments <<"a","b","c">>, the empty path "" is <<>>.    *)
(* A resource type string is its rank in the lexicographic order of type   *)
(* strings: 0 is the empty string "", 1 < 2 < 3 are non-empty types.       *)
(* Python's None, where a string is expected, is the string None.          *)
(***************************************************************************)
EXTENDS Integers, Sequences, FiniteSets, TLC

VARIABLES
    ghIn,        \* gh_get: the responses the remote gives and the clock
    ghOut,       \* gh_get: what the call did (returned/raised, requests, sleep)
    docIn,       \* build_arch_doc: the template, the sidecar and the directory
    docOut,      \* build_arch_doc: <<>> or <<the document built>>
    rs,          \* the remote: kinds of qs/a and qs/b, status of the search API
    config,      \* GITHUB_TOKEN set, FORCE_CONTENTS_WALK, MONGODB_URI set, req.save
    limit,       \* fetch_architectures: limit
    sources,     \* fetch_architectures: sources
    pc,          \* where the run is
    srcIdx,      \* index of src in sources
    searchExc,   \* find_templates: the exception _search_code_api raised
    page,        \* _search_code_api: page
    fnIdx,       \* _search_code_api: index of fname in filenames
    results,     \* _search_code_api: results
    queue,       \* _walk_contents: queue
    whits,       \* _walk_contents: hits
    hits,        \* fetch_architectures: hits
    hitIdx,      \* index of it in hits
    candIdx,     \* try_fetch_template: index of candidate
    hitStart,    \* number of requests issued before the current hit
    cur,         \* (arm_or_raw, tmpl_name) of the current hit
    docs,        \* fetch_architectures: docs
    reqs,        \* the remote requests issued, in order
    exc,         \* the exception that left fetch_architectures
    store,       \* the collection
    clock,       \* datetime.utcnow()
    saves,       \* calls of mongo_save_many so far
    response,    \* what /scrape returned
    firstRun,    \* how an earlier call of fetch_architectures ended
    savers,      \* concurrent mongo_save_many calls: the documents each has left
    applied      \* per natural key, the document of the last update_one

vars == <<ghIn, ghOut, docIn, docOut, rs, config, limit, sources, pc, srcIdx, searchExc,
          page, fnIdx, results, queue, whits, hits, hitIdx, candIdx, hitStart, cur,
          docs, reqs, exc, store, clock, saves, response, firstRun, savers, applied>>
ghVars == <<ghIn, ghOut>>
docVars == <<docIn, docOut>>
inputVars == <<rs, config, limit, sources>>
searchVars == <<page, fnIdx, results>>
walkVars == <<queue, whits>>
hitVars == <<hits, hitIdx, candIdx, hitStart, cur>>
pipeVars == <<inputVars, pc, srcIdx, searchExc, searchVars, walkVars, hitVars, docs, reqs, exc>>
storeVars == <<store, clock, saves, response>>
sessionVars == <<firstRun, savers, applied>>

None == "<None>"

Max(a, b) == IF a >= b THEN a ELSE b
Min(a, b) == IF a <= b THEN a ELSE b

RECURSIVE SeqToSet(_)
SeqToSet(s) == IF s = <<>> THEN {} ELSE {Head(s)} \cup SeqToSet(Tail(s))

(***************************************************************************)
(* Bounds of the model.                                                    *)
(***************************************************************************)
MaxReset == 2      \* x-ratelimit-reset header values 0..MaxReset
MaxClock == 2      \* time.time() values 0..MaxClock

(***************************************************************************)
(* gh_get (azure_architectures.py 49-63).  A response is                   *)
(* [status, rate, reset]: status 0 stands for requests.get raising a       *)
(* transport error (no response), rate says that the body mentions         *)
(* "rate limit", reset is <<>> (no x-ratelimit-reset header) or <<t>>.     *)
(***************************************************************************)
Statuses == {0, 200, 401, 403, 404, 500}

Responses ==
    [status : Statuses, rate : BOOLEAN, reset : {<<>>} \cup {<<t>> : t \in 0..MaxReset}]

\* line 52: if r.status_code in (401, 403)
AuthFailure(r) == r.status \in {401, 403}

\* line 55: if r.status_code == 403 and "rate limit" in r.text.lower()
RateLimited(r) == r.status = 403 /\ r.rate

\* line 62: r.raise_for_status()
RaisesForStatus(r) == r.status >= 400

\* line 58: max(0, int(reset) - int(time.time())) + 1
WaitSeconds(reset, now) == Max(0, reset - now) + 1

GhRaise(e, r, n, slept) ==
    [exc |-> e, status |-> r.status, requests |-> n, slept |-> slept]

GhReturn(r, n, slept) ==
    [exc |-> "none", status |-> r.status, requests |-> n, slept |-> slept]

\* lines 62-63, on the response r that is current after n requests
GhFinish(r, n, slept) ==
    IF r.status = 0 THEN GhRaise("ConnectionError", r, n, slept)
    ELSE IF RaisesForStatus(r) THEN GhRaise("HTTPError", r, n, slept)
    ELSE GhReturn(r, n, slept)

\* The whole call: r1 answers the first request, r2 a second one, now is
\* time.time() when the first response arrives.  slept is -1 when the call
\* never sleeps.
gh_get(r1, r2, now) ==
    IF r1.status = 0 THEN GhRaise("ConnectionError", r1, 1, -1)
    ELSE IF AuthFailure(r1) THEN GhRaise("HTTPError", r1, 1, -1)
    ELSE IF RateLimited(r1) /\ r1.reset # <<>>
         THEN GhFinish(r2, 2, WaitSeconds(r1.reset[1], now))
    ELSE GhFinish(r1, 1, -1)


NoCall == [exc |-> "pending", status |-> 0, requests |-> 0, slept |-> -1]

\* one call of gh_get
GhCall ==
    /\ ghOut = NoCall
    /\ ghOut' = gh_get(ghIn.r1, ghIn.r2, ghIn.now)
    /\ UNCHANGED ghIn
    /\ UNCHANGED <<docVars, pipeVars, storeVars, sessionVars>>

(***************************************************************************)
(* JSON values.  A JSON object (a Python dict) is a function from its keys *)
(* to its values; a dict whose key order matters (parameters, outputs) is  *)
(* the sequence of its keys.  What fetch_repo_content returns is tagged:   *)
(* FNone (None), FList (a directory listing), FDict (a dict), FOther (a    *)
(* JSON file that is not an object).  A raw (non-JSON) text is the         *)
(* sequence of the type ranks of the resources it declares.                *)
(***************************************************************************)
FNone == [kind |-> "none"]
FList(items) == [kind |-> "list", items |-> items]
FDict(o) == [kind |-> "dict", obj |-> o]
FOther == [kind |-> "other"]

IsDict(c) == c.kind = "dict"

Has(d, k) == k \in DOMAIN d

\* d.get(k) for a key whose values are strings
GetStr(d, k) == IF Has(d, k) THEN d[k] ELSE None

TruthyStr(s) == s # None /\ s # ""

\* a or b, on strings
OrStr(a, b) == IF TruthyStr(a) THEN a ELSE b

\* (d.get(k) or {}).keys() for the ordered dicts parameters and outputs
KeysOf(d, k) == IF Has(d, k) THEN d[k] ELSE <<>>

SetMin(S) == CHOOSE x \in S : \A y \in S : x <= y

\* sorted(S) of a set of type strings
RECURSIVE Sorted(_)
Sorted(S) == IF S = {} THEN <<>> ELSE <<SetMin(S)>> \o Sorted(S \ {SetMin(S)})

NoType == -1      \* r.get("type") of a resource without the key: None

CONFIG_OWNER == "Contoso"
CONFIG_REPO == "infra"

(***************************************************************************)
(* parse_arm_resources (187-197).                                          *)
(***************************************************************************)
BaseEntry(r) ==
    [type |-> IF Has(r, "type") THEN r.type ELSE NoType,
     name |-> GetStr(r, "name"),
     apiVersion |-> GetStr(r, "apiVersion")]

ParseEntry(r) ==
    BaseEntry(r)
    @@ (IF Has(r, "dependsOn") THEN [dependsOn |-> r.dependsOn] ELSE <<>>)
    @@ (IF Has(r, "resources")
        THEN [children |-> [i \in 1..Len(r.resources) |-> BaseEntry(r.resources[i])]]
        ELSE <<>>)

parse_arm_resources(arm) ==
    LET res == IF Has(arm, "resources") THEN arm.resources ELSE <<>>
    IN  [i \in 1..Len(res) |-> ParseEntry(res[i])]

\* r.get("type") is truthy: present and not the empty string
TruthyType(e) == e.type # NoType /\ e.type # 0

(***************************************************************************)
(* build_arch_doc (200-236).                                               *)
(***************************************************************************)
\* line 209
ServicesOf_children(arm) ==
    LET parsed == parse_arm_resources(arm)
        top == {parsed[i].type : i \in {j \in 1..Len(parsed) : TruthyType(parsed[j])}}
        sub == UNION {{parsed[i].children[k].type : k \in 1..Len(parsed[i].children)}
                        : i \in {j \in 1..Len(parsed) : Has(parsed[j], "children")}}
    IN  Sorted(top \cup (sub \ {NoType, 0}))

ServicesOf(arm) ==
    LET parsed == parse_arm_resources(arm)
    IN  Sorted({parsed[i].type : i \in {j \in 1..Len(parsed) : TruthyType(parsed[j])}})

\* lines 205-211: the raw text declares resources, the code reads none of them
RawServices_extracted(raw) == Sorted(SeqToSet(raw) \ {0})

RawServices(raw) == <<>>

\* lines 215, 218-219
NameOf_title_first(meta, qs_dir, repo) ==
    LET meta_name == OrStr(OrStr(GetStr(meta, "title"), GetStr(meta, "itemDisplayName")),
                           GetStr(meta, "name"))
    IN  IF TruthyStr(meta_name) THEN meta_name
        ELSE IF qs_dir # <<>> THEN qs_dir[Len(qs_dir)] ELSE repo

NameOf(meta, qs_dir, repo) ==
    LET meta_name == OrStr(OrStr(GetStr(meta, "itemDisplayName"), GetStr(meta, "title")),
                           GetStr(meta, "name"))
    IN  IF TruthyStr(meta_name) THEN meta_name
        ELSE IF qs_dir # <<>> THEN qs_dir[Len(qs_dir)] ELSE repo

\* line 216
DescriptionOf(meta) == OrStr(GetStr(meta, "description"), GetStr(meta, "summary"))

\* lines 221-222
BaseDirUrl(owner, repo, qs_dir) ==
    <<"https://github.com", owner, repo, "tree", "master">> \o qs_dir

TemplateUrl(owner, repo, qs_dir, template_filename) ==
    IF qs_dir # <<>> THEN Append(BaseDirUrl(owner, repo, qs_dir), template_filename)
    ELSE <<"https://github.com", owner, repo, "blob", "master", template_filename>>

\* metadata is what try_fetch_metadata returned: FNone or FDict
build_arch_doc_rawmeta(owner, repo, qs_dir, template_filename, arm_or_raw, metadata) ==
    LET isRaw == Has(arm_or_raw, "_raw")
        services == IF isRaw THEN RawServices(arm_or_raw["_raw"]) ELSE ServicesOf(arm_or_raw)
        meta == IF isRaw THEN arm_or_raw ELSE IF IsDict(metadata) THEN metadata.obj ELSE <<>>
    IN  [name |-> NameOf(meta, qs_dir, repo),
         description |-> DescriptionOf(meta),
         repo |-> <<owner, repo>>,
         quickstart_dir |-> qs_dir,
         template_file |-> template_filename,
         services |-> services,
         resource_count |-> Len(services),
         source_urls |-> [dir_html |-> BaseDirUrl(owner, repo, qs_dir),
                          template_html |-> TemplateUrl(owner, repo, qs_dir, template_filename)],
         metadata |-> meta,
         arm_parameters_keys |-> IF isRaw THEN <<>> ELSE KeysOf(arm_or_raw, "parameters"),
         arm_outputs_keys |-> IF isRaw THEN <<>> ELSE KeysOf(arm_or_raw, "outputs")]

build_arch_doc(owner, repo, qs_dir, template_filename, arm_or_raw, metadata) ==
    LET isRaw == Has(arm_or_raw, "_raw")
        services == IF isRaw THEN RawServices(arm_or_raw["_raw"]) ELSE ServicesOf(arm_or_raw)
        meta == IF IsDict(metadata) THEN metadata.obj ELSE <<>>
    IN  [name |-> NameOf(meta, qs_dir, repo),
         description |-> DescriptionOf(meta),
         repo |-> <<owner, repo>>,
         quickstart_dir |-> qs_dir,
         template_file |-> template_filename,
         services |-> services,
         resource_count |-> Len(services),
         source_urls |-> [dir_html |-> BaseDirUrl(owner, repo, qs_dir),
                          template_html |-> TemplateUrl(owner, repo, qs_dir, template_filename)],
         metadata |-> meta,
         arm_parameters_keys |-> IF isRaw THEN <<>> ELSE KeysOf(arm_or_raw, "parameters"),
         arm_outputs_keys |-> IF isRaw THEN <<>> ELSE KeysOf(arm_or_raw, "outputs")]

(***************************************************************************)
(* The inputs build_arch_doc is applied to.                                *)
(***************************************************************************)
MaxType == 3         \* resource type ranks 0..MaxType
MaxResources == 2    \* length of a template's top-level resources array

SeqsUpTo(S, n) == UNION {[1..k -> S] : k \in 0..n}

ResourceEntries ==
    {[type |-> t, name |-> "res", apiVersion |-> "v1"] : t \in 0..MaxType}
    \cup {[name |-> "res", apiVersion |-> "v1"]}
    \cup {[type |-> 1, name |-> "res", dependsOn |-> <<"dep">>,
           resources |-> <<[type |-> MaxType, name |-> "child"], [name |-> "child"]>>]}
    \cup {[name |-> "res", resources |-> <<[type |-> 2, name |-> "child"]>>]}

Optional(S) == {<<>>} \cup S

ArmDocs ==
    {r @@ p @@ o :
        r \in Optional({[resources |-> s] : s \in SeqsUpTo(ResourceEntries, MaxResources)}),
        p \in Optional({[parameters |-> <<>>], [parameters |-> <<"p2", "p1">>]}),
        o \in Optional({[outputs |-> <<"o1">>]})}

RawTexts == {<<>>, <<2, 1>>}

RawDocs == {[_raw |-> t] : t \in RawTexts}

\* what try_fetch_metadata returns: None, or the dict fetch_repo_content gave,
\* which is {_raw: text} when metadata.json is not JSON
Sidecars ==
    {FNone, FDict(<<>>), FDict([title |-> "My App"]),
     FDict([itemDisplayName |-> "Sample App", description |-> "about"]),
     FDict([itemDisplayName |-> "", name |-> "n", summary |-> "sum"]),
     FDict([itemDisplayName |-> "Sample App", title |-> "My App", summary |-> ""]),
     FDict([title |-> "", description |-> "", summary |-> "sum"]),
     FDict([_raw |-> <<>>])}

QsDirs == {<<>>, <<"qs", "a">>, <<"101-foo", "bar">>}

DocInputs ==
    /\ docIn \in [arm : ArmDocs \cup RawDocs, meta : Sidecars, qs_dir : QsDirs]
    /\ docOut = <<>>

\* build_arch_doc applied to the input, as fetch_architectures line 271 does
BuildDoc ==
    /\ docOut = <<>>
    /\ docOut' = <<build_arch_doc(CONFIG_OWNER, CONFIG_REPO, docIn.qs_dir,
                                 IF Has(docIn.arm, "_raw") THEN "main.bicep"
                                 ELSE "azuredeploy.json",
                                 docIn.arm, docIn.meta)>>
    /\ UNCHANGED docIn
    /\ UNCHANGED <<ghVars, pipeVars, storeVars, sessionVars>>

(***************************************************************************)
(* The remote repository.  It is static during a run: rs names, for        *)
(* the directories qs/a and qs/b, which files they hold.  The tree is      *)
(*     template.json   qs/   qs/a/...   qs/b/...                           *)
(* A response carries, beside what gh_get reads, the JSON data of the      *)
(* contents API: a directory listing, or a base64 file whose decoded text  *)
(* parses to a JSON object ("dict"), to another JSON value ("other") or    *)
(* not at all ("invalid").                                                 *)
(***************************************************************************)
ARM_CANDIDATES == <<"azuredeploy.json", "main.json", "template.json">>
BICEP_CANDIDATES == <<"main.bicep", "azuredeploy.bicep", "template.bicep">>
\* lines 170 and 177: the order in which try_fetch_template tries them
Candidates_bicep_first == BICEP_CANDIDATES \o ARM_CANDIDATES

Candidates == ARM_CANDIDATES \o BICEP_CANDIDATES

Ok(data) == [status |-> 200, rate |-> FALSE, reset |-> <<>>, data |-> data]
Failing(status) == [status |-> status, rate |-> FALSE, reset |-> <<>>, data |-> [kind |-> "none"]]
NotFound == Failing(404)

JsonFile(obj) == Ok([kind |-> "file", encoding |-> "base64", json |-> "dict", obj |-> obj])
JsonOther == Ok([kind |-> "file", encoding |-> "base64", json |-> "other"])
TextFile(text) == Ok([kind |-> "file", encoding |-> "base64", json |-> "invalid", text |-> text])

ArmFull ==
    ("$schema" :> "https://schema.management.azure.com/deploymentTemplate.json")
    @@ [resources |-> <<[type |-> 2, name |-> "st", apiVersion |-> "v1"],
                        [type |-> 1, name |-> "vnet", apiVersion |-> "v1"],
                        [type |-> 2, name |-> "st2", apiVersion |-> "v1"]>>,
        parameters |-> <<"location">>,
        outputs |-> <<"endpoint">>]
ArmSchemaOnly == ("$schema" :> "")
ArmParamsOnly == [parameters |-> <<>>]
ArmEmptyResources == [resources |-> <<>>]
ArmResourcesOnly == [resources |-> <<[type |-> 3, name |-> "kv", apiVersion |-> "v1"]>>]
NotArm == [contentVersion |-> "1.0.0.0"]

File(name, resp) == [name |-> name, resp |-> resp]

DirKinds ==
    {"arm", "bicep", "both", "emptyres", "schema", "notarm", "empty", "rawmeta", "broken",
     "denied", "unauthorized"}

\* the files of a directory of the kind, in the order the listing gives them
KindFiles(kind) ==
    CASE kind = "arm" ->
            <<File("azuredeploy.json", JsonFile(ArmFull)),
              File("metadata.json", JsonFile([itemDisplayName |-> "Sample App"]))>>
      [] kind = "bicep" -> <<File("main.bicep", TextFile(<<2, 1>>))>>
      [] kind = "both" ->
            <<File("azuredeploy.json", JsonFile(ArmResourcesOnly)),
              File("main.bicep", TextFile(<<1>>))>>
      [] kind = "emptyres" ->
            <<File("azuredeploy.json", JsonFile(ArmEmptyResources)),
              File("template.json", JsonFile(ArmParamsOnly))>>
      [] kind = "schema" ->
            <<File("azuredeploy.bicep", TextFile(<<3>>)),
              File("azuredeploy.json", TextFile(<<>>)),
              File("main.json", JsonFile(ArmSchemaOnly)),
              File("metadata.json", JsonOther)>>
      [] kind = "notarm" ->
            <<File("main.bicep", JsonOther),
              File("main.json", JsonFile(NotArm)),
              File("template.bicep", JsonFile(NotArm))>>
      [] kind = "rawmeta" ->
            <<File("metadata.json", TextFile(<<>>)),
              File("template.bicep", TextFile(<<>>))>>
      [] kind = "broken" ->
            <<File("azuredeploy.json", JsonFile(NotArm)),
              File("main.json", Failing(500))>>
      [] kind = "denied" -> <<File("azuredeploy.json", Failing(403))>>
      [] kind = "unauthorized" ->
            <<File("metadata.json", Failing(401)),
              File("template.json", JsonFile(ArmParamsOnly))>>
      [] OTHER -> <<>>

Entry(dir, name, type) == [name |-> name, path |-> Append(dir, name), type |-> type]

Listing(dir, subdirs, files) ==
    Ok([kind |-> "list",
        items |-> [i \in 1..Len(subdirs) |-> Entry(dir, subdirs[i], "dir")]
                  \o [i \in 1..Len(files) |-> Entry(dir, files[i].name, "file")]])

RootFiles == <<File("template.json", JsonFile(ArmSchemaOnly))>>

FilesOfDir(tree, dir) ==
    IF dir = <<>> THEN RootFiles
    ELSE IF dir = <<"qs", "a">> THEN KindFiles(tree.a)
    ELSE IF dir = <<"qs", "b">> THEN KindFiles(tree.b)
    ELSE <<>>

SubdirsOf(dir) ==
    IF dir = <<>> THEN <<"qs">> ELSE IF dir = <<"qs">> THEN <<"a", "b">> ELSE <<>>

Dirs == {<<>>, <<"qs">>, <<"qs", "a">>, <<"qs", "b">>}

\* GET /repos/{owner}/{repo}/contents/{path}
Contents(tree, path) ==
    IF path \in Dirs THEN Listing(path, SubdirsOf(path), FilesOfDir(tree, path))
    ELSE IF path = <<>> THEN NotFound
    ELSE LET dir == SubSeq(path, 1, Len(path) - 1)
             files == FilesOfDir(tree, dir)
             at == {i \in 1..Len(files) : files[i].name = path[Len(path)]}
         IN  IF dir \in Dirs /\ at # {} THEN files[CHOOSE i \in at : TRUE].resp
             ELSE NotFound

(***************************************************************************)
(* fetch_repo_content (66-84).  The result is [exc, val]: exc is "none"    *)
(* when the call returns val, else the exception that leaves the call.     *)
(***************************************************************************)
Returned(val) == [exc |-> "none", val |-> val]
Raised(e) == [exc |-> e, val |-> FNone]

\* lines 70-80
DecodeData(data) ==
    IF data.kind = "list" THEN FList(data.items)
    ELSE IF data.json = "dict" THEN FDict(data.obj)
    ELSE IF data.json = "other" THEN FOther
    ELSE FDict([_raw |-> data.text])

fetch_repo_content_raising(resp) ==
    LET got == gh_get(resp, resp, 0)
    IN  IF got.exc = "none" THEN Returned(DecodeData(resp.data)) ELSE Raised(got.exc)

fetch_repo_content(resp) ==
    LET got == gh_get(resp, resp, 0)
    IN  IF got.exc = "none" THEN Returned(DecodeData(resp.data))
        ELSE IF got.exc = "HTTPError" /\ got.status = 404 THEN Returned(FNone)
        ELSE Raised(got.exc)

(***************************************************************************)
(* try_fetch_template (168-184): what decides one candidate.               *)
(***************************************************************************)
\* line 173: content.get("resources") or "parameters" in content or "$schema" in content
LooksLikeArm(content) ==
    /\ IsDict(content)
    /\ \/ (Has(content.obj, "resources") /\ content.obj.resources # <<>>)
       \/ Has(content.obj, "parameters")
       \/ Has(content.obj, "$schema")

\* line 180
LooksLikeBicep(content) == IsDict(content) /\ Has(content.obj, "_raw")

\* candidate number i (1..3 ARM, 4..6 Bicep) is accepted with this content
Accepts(i, content) ==
    IF i <= Len(ARM_CANDIDATES) THEN LooksLikeArm(content) ELSE LooksLikeBicep(content)

\* line 165
infer_dir_from_path(p) == IF Len(p) > 1 THEN SubSeq(p, 1, Len(p) - 1) ELSE <<>>

\* lines 171, 178, 240: f"{qs_dir}/{name}" if qs_dir else name
PathIn(qs_dir, name) == Append(qs_dir, name)

(***************************************************************************)
(* The code search API: GET /search/code?q=repo:.. filename:.. [path:..].  *)
(* The index lists every file of the tree; a query answers with the files  *)
(* of that name below the subdirectory, PER_PAGE to a page.                *)
(***************************************************************************)
PER_PAGE == 50
MAX_PAGES == 10

IsPrefix(p, q) == Len(p) <= Len(q) /\ SubSeq(q, 1, Len(p)) = p

RECURSIVE SelectPaths(_, _, _)
SelectPaths(paths, fname, subdir) ==
    IF paths = <<>> THEN <<>>
    ELSE LET p == Head(paths)
             rest == SelectPaths(Tail(paths), fname, subdir)
         IN  IF p[Len(p)] = fname /\ IsPrefix(subdir, p) THEN <<p>> \o rest ELSE rest

PathsOfDir(tree, dir) ==
    LET files == FilesOfDir(tree, dir) IN [i \in 1..Len(files) |-> Append(dir, files[i].name)]

AllFilePaths(tree) ==
    PathsOfDir(tree, <<"qs", "a">>) \o PathsOfDir(tree, <<"qs", "b">>) \o PathsOfDir(tree, <<>>)

SearchResponse(tree, fname, subdir, pg) ==
    IF tree.search # 200 THEN Failing(tree.search)
    ELSE LET all == SelectPaths(AllFilePaths(tree), fname, subdir)
             from == (pg - 1) * PER_PAGE + 1
             to == Min(pg * PER_PAGE, Len(all))
         IN  Ok([kind |-> "search",
                 items |-> IF from > to THEN <<>>
                           ELSE [i \in 1..(to - from + 1) |-> [path |-> all[from + i - 1]]]])

(***************************************************************************)
(* _search_code_api (90-121) and _walk_contents (124-146): what one        *)
(* iteration does with the response it got.                                *)
(***************************************************************************)
\* lines 106-109: append the items, stop after the append that reaches limit
TakeItems(res, items, lim) ==
    IF items = <<>> THEN res
    ELSE res \o SubSeq(items, 1, Min(Len(items), Max(1, lim - Len(res))))

\* lines 113-121
RECURSIVE Dedupe(_, _, _)
Dedupe(res, uniq, lim) ==
    IF res = <<>> THEN uniq
    ELSE LET it == Head(res)
             u == IF \E i \in 1..Len(uniq) : uniq[i].path = it.path
                  THEN uniq ELSE Append(uniq, it)
         IN  IF Len(u) >= lim THEN u ELSE Dedupe(Tail(res), u, lim)

\* lines 137-145: the entries of one listing
RECURSIVE WalkEntries_lifo(_, _, _, _)
WalkEntries_lifo(items, q, found, lim) ==
    IF items = <<>> THEN [queue |-> q, hits |-> found]
    ELSE LET it == Head(items)
         IN  IF it.type = "dir"
             THEN WalkEntries_lifo(Tail(items), <<it.path>> \o q, found, lim)
             ELSE IF it.type = "file" /\ it.name \in SeqToSet(Candidates)
             THEN IF Len(found) + 1 >= lim
                  THEN [queue |-> q, hits |-> Append(found, [path |-> it.path])]
                  ELSE WalkEntries_lifo(Tail(items), q, Append(found, [path |-> it.path]), lim)
             ELSE WalkEntries_lifo(Tail(items), q, found, lim)

RECURSIVE WalkEntries(_, _, _, _)
WalkEntries(items, q, found, lim) ==
    IF items = <<>> THEN [queue |-> q, hits |-> found]
    ELSE LET it == Head(items)
         IN  IF it.type = "dir" THEN WalkEntries(Tail(items), Append(q, it.path), found, lim)
             ELSE IF it.type = "file" /\ it.name \in SeqToSet(Candidates)
             THEN IF Len(found) + 1 >= lim
                  THEN [queue |-> q, hits |-> Append(found, [path |-> it.path])]
                  ELSE WalkEntries(Tail(items), q, Append(found, [path |-> it.path]), lim)
             ELSE WalkEntries(Tail(items), q, found, lim)

\* lines 133-136: fetch_repo_content(...) or [], a dict wrapped into a list.
\* The tree's roots and queued paths are directories, so the listing is a
\* list or None here.
ListingItems(val) == IF val.kind = "list" THEN val.items ELSE <<>>

(***************************************************************************)
(* fetch_architectures (247-276) with find_templates (149-158), one action *)
(* per remote request and one per loop head.                               *)
(***************************************************************************)

\* line 253
PerSource_whole(lim, srcs) == lim

PerSource(lim, srcs) == Max(1, lim \div Max(1, Len(srcs)))

\* lines 257-261: "Owner/Repo[:subdir]"; subdir is <<>> (None) or <<path>>
Source(sub) == [owner |-> CONFIG_OWNER, repo |-> CONFIG_REPO, subdir |-> sub]

\* subdir or ""
RootOf(src) == IF src.subdir = <<>> THEN <<>> ELSE src.subdir[1]

NoTemplate == [content |-> <<>>, name |-> None]

ContentsRequest(path) == [api |-> "contents", path |-> path, page |-> 0]
SearchRequestOf(fname, page_) == [api |-> "search", path |-> <<fname>>, page |-> page_]

\* an exception leaves fetch_architectures
Propagate(e) ==
    /\ pc' = "error"
    /\ exc' = e

\* _walk_contents is entered (line 128)
EnterWalk(src) ==
    /\ pc' = "walk"
    /\ queue' = <<RootOf(src)>>
    /\ whits' = <<>>

\* find_templates has returned found (line 263), the hit loop starts
Located_reversed(found) ==
    /\ hits' = [i \in 1..Len(found) |-> found[Len(found) + 1 - i]]
    /\ hitIdx' = 1
    /\ pc' = "hit"

Located(found) ==
    /\ hits' = found
    /\ hitIdx' = 1
    /\ pc' = "hit"

\* lines 255-263 and 151-154: the next source, and the strategy chosen for it
BeginSource ==
    /\ pc = "source"
    /\ IF srcIdx > Len(sources)
       THEN /\ pc' = "done"
            /\ UNCHANGED <<searchVars, walkVars>>
       ELSE IF config.force \/ ~config.token
       THEN /\ EnterWalk(sources[srcIdx])
            /\ UNCHANGED searchVars
       ELSE /\ pc' = "search"
            /\ page' = 1
            /\ fnIdx' = 1
            /\ results' = <<>>
            /\ UNCHANGED walkVars
    /\ searchExc' = "none"
    /\ UNCHANGED <<inputVars, srcIdx, hitVars, docs, reqs, exc>>
    /\ UNCHANGED <<ghVars, docVars, storeVars, sessionVars>>

\* line 99: while len(results) < limit and page <= 10
SearchGoesOn_uncapped(res, pg, lim) == Len(res) < lim

SearchGoesOn(res, pg, lim) == Len(res) < lim /\ pg <= MAX_PAGES

\* find_templates lines 155-158: which exceptions of the search are caught
CaughtBySearchFallback(e) == e = "HTTPError"

\* lines 99-121: one search request and what follows it up to the next one
SearchStep ==
    /\ pc = "search"
    /\ LET src == sources[srcIdx]
           lim == PerSource(limit, sources)
           fname == Candidates[fnIdx]
           resp == SearchResponse(rs, fname, RootOf(src), page)
           got == gh_get(resp, resp, 0)
           res == TakeItems(results, resp.data.items, lim)
           lastName == fnIdx = Len(Candidates)
           again == SearchGoesOn(res, page + 1, lim)
       IN  /\ reqs' = Append(reqs, SearchRequestOf(fname, page))
           /\ IF got.exc # "none"
              THEN /\ searchExc' = got.exc
                   /\ IF CaughtBySearchFallback(got.exc)
                      THEN /\ EnterWalk(src)
                           /\ UNCHANGED exc
                      ELSE /\ Propagate(got.exc)
                           /\ UNCHANGED walkVars
                   /\ UNCHANGED <<searchVars, hits, hitIdx>>
              ELSE /\ results' = res
                   /\ fnIdx' = IF lastName THEN 1 ELSE fnIdx + 1
                   /\ page' = IF lastName THEN page + 1 ELSE page
                   /\ IF lastName /\ ~again
                      THEN Located(Dedupe(res, <<>>, lim))
                      ELSE UNCHANGED <<pc, hits, hitIdx>>
                   /\ UNCHANGED <<searchExc, walkVars, exc>>
    /\ UNCHANGED <<inputVars, srcIdx, candIdx, hitStart, cur, docs>>
    /\ UNCHANGED <<ghVars, docVars, storeVars, sessionVars>>

\* lines 131-146: one directory listing
WalkStep ==
    /\ pc = "walk"
    /\ LET lim == PerSource(limit, sources)
           dir == Head(queue)
           f == fetch_repo_content(Contents(rs, dir))
           w == WalkEntries(ListingItems(f.val), Tail(queue), whits, lim)
       IN  /\ reqs' = Append(reqs, ContentsRequest(dir))
           /\ IF f.exc # "none"
              THEN /\ Propagate(f.exc)
                   /\ UNCHANGED <<walkVars, hits, hitIdx>>
              ELSE /\ queue' = w.queue
                   /\ whits' = w.hits
                   /\ IF w.queue # <<>> /\ Len(w.hits) < lim
                      THEN UNCHANGED <<pc, hits, hitIdx>>
                      ELSE Located(w.hits)
                   /\ UNCHANGED exc
    /\ UNCHANGED <<inputVars, srcIdx, searchExc, searchVars, candIdx, hitStart, cur, docs>>
    /\ UNCHANGED <<ghVars, docVars, storeVars, sessionVars>>

\* lines 264-266: the head of the hit loop
NextHit ==
    /\ pc = "hit"
    /\ IF hitIdx > Len(hits)
       THEN /\ srcIdx' = srcIdx + 1
            /\ pc' = "source"
            /\ UNCHANGED <<candIdx, hitStart>>
       ELSE /\ candIdx' = 1
            /\ hitStart' = Len(reqs)
            /\ pc' = "resolve"
            /\ UNCHANGED srcIdx
    /\ cur' = NoTemplate
    /\ UNCHANGED <<inputVars, searchExc, searchVars, walkVars, hits, hitIdx, docs, reqs, exc>>
    /\ UNCHANGED <<ghVars, docVars, storeVars, sessionVars>>

QsDir == infer_dir_from_path(hits[hitIdx].path)

\* try_fetch_template: the fetch of one candidate (171-174, 178-182); after
\* the last candidate lines 184 and 268-269
ResolveStep ==
    /\ pc = "resolve"
    /\ LET path == PathIn(QsDir, Candidates[candIdx])
           f == fetch_repo_content(Contents(rs, path))
       IN  /\ reqs' = Append(reqs, ContentsRequest(path))
           /\ IF f.exc # "none"
              THEN /\ Propagate(f.exc)
                   /\ UNCHANGED <<hitIdx, candIdx, cur>>
              ELSE IF Accepts(candIdx, f.val)
              THEN /\ cur' = [content |-> f.val.obj, name |-> Candidates[candIdx]]
                   /\ pc' = "meta"
                   /\ UNCHANGED <<hitIdx, candIdx, exc>>
              ELSE IF candIdx < Len(Candidates)
              THEN /\ candIdx' = candIdx + 1
                   /\ UNCHANGED <<pc, hitIdx, cur, exc>>
              ELSE /\ hitIdx' = hitIdx + 1
                   /\ pc' = "hit"
                   /\ UNCHANGED <<candIdx, cur, exc>>
    /\ UNCHANGED <<inputVars, srcIdx, searchExc, searchVars, walkVars, hits, hitStart, docs>>
    /\ UNCHANGED <<ghVars, docVars, storeVars, sessionVars>>

\* try_fetch_metadata (239-241)
try_fetch_metadata(f) == IF IsDict(f.val) THEN f.val ELSE FNone

\* lines 273-274: the run returns once limit documents are there
ReachedLimit_never(ds, lim) == FALSE

ReachedLimit(ds, lim) == Len(ds) >= lim

\* lines 270-274
MetaStep ==
    /\ pc = "meta"
    /\ LET src == sources[srcIdx]
           path == PathIn(QsDir, "metadata.json")
           f == fetch_repo_content(Contents(rs, path))
           doc == build_arch_doc(src.owner, src.repo, QsDir, cur.name, cur.content,
                                 try_fetch_metadata(f))
       IN  /\ reqs' = Append(reqs, ContentsRequest(path))
           /\ IF f.exc # "none"
              THEN /\ Propagate(f.exc)
                   /\ UNCHANGED <<hitIdx, docs>>
              ELSE /\ docs' = Append(docs, doc)
                   /\ IF ReachedLimit(docs', limit)
                      THEN /\ pc' = "done"
                           /\ UNCHANGED hitIdx
                      ELSE /\ pc' = "hit"
                           /\ hitIdx' = hitIdx + 1
                   /\ UNCHANGED exc
    /\ UNCHANGED <<inputVars, srcIdx, searchExc, searchVars, walkVars, hits, candIdx, hitStart, cur>>
    /\ UNCHANGED <<ghVars, docVars, storeVars, sessionVars>>

(***************************************************************************)
(* mongo_save_many (282-300).  The collection is the sequence of its       *)
(* documents in insertion order; _id is the number the insert gave.        *)
(***************************************************************************)
\* line 296: the filter of update_one
UpsertFilter_created_at(d) ==
    <<d.repo, d.quickstart_dir, d.template_file,
      IF Has(d, "created_at") THEN d.created_at ELSE -1>>

UpsertFilter(d) == <<d.repo, d.quickstart_dir, d.template_file>>

Matching(st, d) == {i \in 1..Len(st) : UpsertFilter(st[i]) = UpsertFilter(d)}

\* lines 295-299: update_one(filter, {"$set": d}, upsert=True)
update_one_insert(st, d) == Append(st, d @@ [_id |-> Len(st) + 1])

update_one_keep_stored(st, d) ==
    IF Matching(st, d) # {}
    THEN LET i == SetMin(Matching(st, d)) IN [st EXCEPT ![i] = st[i] @@ d]
    ELSE Append(st, d @@ [_id |-> Len(st) + 1])

update_one(st, d) ==
    IF Matching(st, d) # {}
    THEN LET i == SetMin(Matching(st, d)) IN [st EXCEPT ![i] = d @@ st[i]]
    ELSE Append(st, d @@ [_id |-> Len(st) + 1])

RECURSIVE UpsertAll(_, _)
UpsertAll(st, ds) == IF ds = <<>> THEN st ELSE UpsertAll(update_one(st, Head(ds)), Tail(ds))

\* lines 283-285: without MONGODB_URI nothing is saved
mongo_save_many(st, ds, mongo) == IF mongo THEN UpsertAll(st, ds) ELSE st

\* the (repo, quickstart_dir, template_file) of a document
NaturalKey(d) == <<d.repo, d.quickstart_dir, d.template_file>>

\* the record of the calls of update_one: ap after update_one was called with d
LastWrite(ap, d) ==
    [k \in DOMAIN ap \cup {NaturalKey(d)} |-> IF k = NaturalKey(d) THEN d ELSE ap[k]]

RECURSIVE LastWrites(_, _, _)
LastWrites(ap, ds, mongo) ==
    IF ~mongo \/ ds = <<>> THEN ap ELSE LastWrites(LastWrite(ap, Head(ds)), Tail(ds), mongo)

(***************************************************************************)
(* scrape (app.py 125-146), after fetch_architectures has returned.        *)
(***************************************************************************)
\* lines 133-135
Stamp(ds, now) == [i \in 1..Len(ds) |-> ds[i] @@ [created_at |-> now]]

WithoutId(d) == [k \in DOMAIN d \ {"_id"} |-> d[k]]

RECURSIVE SelectCreatedAt(_, _)
SelectCreatedAt(st, now) ==
    IF st = <<>> THEN <<>>
    ELSE IF Has(Head(st), "created_at") /\ Head(st).created_at = now
    THEN <<WithoutId(Head(st))>> \o SelectCreatedAt(Tail(st), now)
    ELSE SelectCreatedAt(Tail(st), now)

\* lines 141-143: coll.find({"created_at": now}).limit(req.limit)
FindSaved(st, now, lim) ==
    LET all == SelectCreatedAt(st, now) IN SubSeq(all, 1, Min(lim, Len(all)))

\* lines 133-146
ScrapeFinish ==
    /\ pc = "done"
    /\ LET stamped == Stamp(docs, clock)
       IN  IF ~config.save
           THEN /\ response' = stamped
                /\ pc' = "responded"
                /\ UNCHANGED <<store, saves, applied>>
           ELSE IF ~config.mongo
           THEN /\ pc' = "http400"
                /\ UNCHANGED <<store, saves, response, applied>>
           ELSE /\ store' = mongo_save_many(store, stamped, config.mongo)
                /\ applied' = LastWrites(applied, stamped, config.mongo)
                /\ saves' = saves + 1
                /\ response' = FindSaved(store', clock, limit)
                /\ pc' = "responded"
    /\ UNCHANGED <<inputVars, srcIdx, searchExc, searchVars, walkVars, hitVars, docs, reqs, exc, clock>>
    /\ UNCHANGED <<ghVars, docVars, firstRun, savers>>

MaxSaves == 2     \* /scrape requests that save, per behaviour
MaxTime == 1      \* datetime.utcnow() values 0..MaxTime

\* the same /scrape request again, later or within the same clock reading
ScrapeAgain ==
    /\ pc = "responded"
    /\ saves < MaxSaves
    /\ config.save
    /\ \E t \in clock..Min(clock + 1, MaxTime) : clock' = t
    /\ pc' = "source"
    /\ srcIdx' = 1
    /\ docs' = <<>>
    /\ reqs' = <<>>
    /\ response' = <<>>
    /\ UNCHANGED <<inputVars, searchExc, searchVars, walkVars, hitVars, exc, store, saves>>
    /\ UNCHANGED <<ghVars, docVars, sessionVars>>

(***************************************************************************)
(* mongo_save_many called directly with batches of documents.              *)
(***************************************************************************)
MaxBatch == 2     \* documents in one batch
MaxStore == 4     \* documents in the collection

BatchDocs ==
    [repo : {<<"Contoso", "infra">>, <<"Fabrikam", "infra">>},
     quickstart_dir : {<<"qs", "a">>},
     template_file : {"azuredeploy.json", "main.bicep"},
     resource_count : {0, 1}]

SaveBatch ==
    /\ pc = "idle"
    /\ \E ds \in SeqsUpTo(BatchDocs, MaxBatch) :
          /\ ds # <<>>
          /\ store' = mongo_save_many(store, ds, config.mongo)
          /\ applied' = LastWrites(applied, ds, config.mongo)
    /\ Len(store') <= MaxStore
    /\ saves < MaxSaves
    /\ saves' = saves + 1
    /\ UNCHANGED <<pipeVars, clock, response>>
    /\ UNCHANGED <<ghVars, docVars, firstRun, savers>>

(***************************************************************************)
(* Initial states and specifications.                                      *)
(***************************************************************************)
MaxLimit == 2       \* limit is 1..MaxLimit
MaxSources == 2     \* sources holds 1..MaxSources entries

\* the root, qs, qs/b, and a subdirectory the repository does not have
SourceSet ==
    {Source(<<>>), Source(<<(<<"qs">>)>>), Source(<<(<<"qs", "b">>)>>),
     Source(<<(<<"qs", "gone">>)>>)}

SourceLists == SeqsUpTo(SourceSet, MaxSources) \ {<<>>}

GhIdle == ghIn = <<>> /\ ghOut = NoCall

DocIdle == docIn = <<>> /\ docOut = <<>>

StoreIdle == store = <<>> /\ clock = 0 /\ saves = 0 /\ response = <<>>

NoRun == [pc |-> "none", exc |-> "none", docs |-> <<>>]

SessionIdle == firstRun = NoRun /\ savers = <<>> /\ applied = <<>>

\* the locals of a run before its first step
RunStart ==
    /\ srcIdx = 1
    /\ searchExc = "none"
    /\ page = 1
    /\ fnIdx = 1
    /\ results = <<>>
    /\ queue = <<>>
    /\ whits = <<>>
    /\ hits = <<>>
    /\ hitIdx = 1
    /\ candIdx = 1
    /\ hitStart = 0
    /\ cur = NoTemplate
    /\ docs = <<>>
    /\ reqs = <<>>
    /\ exc = "none"

PipeIdle ==
    /\ rs = [a |-> "empty", b |-> "empty", search |-> 200]
    /\ config \in [token : {FALSE}, force : {FALSE}, mongo : BOOLEAN, save : {TRUE}]
    /\ limit = 1
    /\ sources = <<>>
    /\ pc = "idle"
    /\ RunStart

\* fetch_architectures is called: any tree, any strategy, any limit and sources
Init ==
    /\ rs \in [a : {"arm", "bicep", "empty"}, b : DirKinds, search : {200, 403, 0}]
    /\ config \in [token : BOOLEAN, force : BOOLEAN, mongo : {TRUE}, save : {FALSE}]
    /\ (config.token /\ ~config.force) \/ rs.search = 200
    /\ limit \in 1..MaxLimit
    /\ sources \in SourceLists
    /\ pc = "source"
    /\ RunStart
    /\ StoreIdle
    /\ SessionIdle
    /\ GhIdle
    /\ DocIdle

Next == BeginSource \/ SearchStep \/ WalkStep \/ NextHit \/ ResolveStep \/ MetaStep

Spec == Init /\ [][Next]_vars

\* gh_get is called with any first response, any retry response, any clock
InitGh ==
    /\ ghIn \in [r1 : Responses, r2 : Responses, now : 0..MaxClock]
    /\ ghOut = NoCall
    /\ DocIdle
    /\ PipeIdle
    /\ config.mongo
    /\ StoreIdle
    /\ SessionIdle

NextGh == GhCall

SpecGh == InitGh /\ [][NextGh]_vars

\* build_arch_doc is called with any template, sidecar and directory
InitDoc ==
    /\ DocInputs
    /\ GhIdle
    /\ PipeIdle
    /\ config.mongo
    /\ StoreIdle
    /\ SessionIdle

NextDoc == BuildDoc

SpecDoc == InitDoc /\ [][NextDoc]_vars

\* mongo_save_many is called with any batches, on an empty collection
InitSave ==
    /\ PipeIdle
    /\ StoreIdle
    /\ SessionIdle
    /\ GhIdle
    /\ DocIdle

NextSave == SaveBatch

SpecSave == InitSave /\ [][NextSave]_vars

\* POST /scrape against a static tree, and the same request repeated
InitScrape ==
    /\ rs \in [a : {"arm", "bicep", "empty"}, b : DirKinds, search : {200}]
    /\ config \in [token : {FALSE}, force : {FALSE}, mongo : BOOLEAN, save : BOOLEAN]
    /\ limit \in 1..MaxLimit
    /\ sources \in SourceLists
    /\ pc = "source"
    /\ RunStart
    /\ StoreIdle
    /\ SessionIdle
    /\ GhIdle
    /\ DocIdle

NextScrape ==
    BeginSource \/ WalkStep \/ NextHit \/ ResolveStep \/ MetaStep \/ ScrapeFinish \/ ScrapeAgain

SpecScrape == InitScrape /\ [][NextScrape]_vars

\* fetch_architectures has ended and is called again with the same limit and
\* sources, the repository unchanged
RunAgain ==
    /\ pc \in {"done", "error"}
    /\ firstRun = NoRun
    /\ firstRun' = [pc |-> pc, exc |-> exc, docs |-> docs]
    /\ pc' = "source"
    /\ srcIdx' = 1
    /\ searchExc' = "none"
    /\ page' = 1
    /\ fnIdx' = 1
    /\ results' = <<>>
    /\ queue' = <<>>
    /\ whits' = <<>>
    /\ hits' = <<>>
    /\ hitIdx' = 1
    /\ candIdx' = 1
    /\ hitStart' = 0
    /\ cur' = NoTemplate
    /\ docs' = <<>>
    /\ reqs' = <<>>
    /\ exc' = "none"
    /\ UNCHANGED <<inputVars, savers, applied>>
    /\ UNCHANGED <<ghVars, docVars, storeVars>>

InitRerun ==
    /\ rs \in [a : {"arm", "empty"}, b : DirKinds, search : {200, 403}]
    /\ config \in [token : BOOLEAN, force : BOOLEAN, mongo : {TRUE}, save : {FALSE}]
    /\ (config.token /\ ~config.force) \/ rs.search = 200
    /\ limit \in 1..MaxLimit
    /\ sources \in SourceLists
    /\ pc = "source"
    /\ RunStart
    /\ StoreIdle
    /\ SessionIdle
    /\ GhIdle
    /\ DocIdle

NextRerun ==
    BeginSource \/ SearchStep \/ WalkStep \/ NextHit \/ ResolveStep \/ MetaStep \/ RunAgain

SpecRerun == InitRerun /\ [][NextRerun]_vars

(***************************************************************************)
(* Two /scrape requests that save at the same time: each runs the loop of  *)
(* mongo_save_many (294-299) over its own documents, stamped with its own  *)
(* created_at; the collection applies one update_one at a time.            *)
(***************************************************************************)
ScrapedDocs ==
    [repo : {<<"Contoso", "infra">>},
     quickstart_dir : {<<"qs", "a">>},
     template_file : {"azuredeploy.json", "main.bicep"},
     resource_count : {0, 1}]

\* line 295: the next update_one of saver p
Upsert(p) ==
    /\ p \in DOMAIN savers
    /\ savers[p] # <<>>
    /\ store' = update_one(store, Head(savers[p]))
    /\ applied' = LastWrite(applied, Head(savers[p]))
    /\ savers' = [savers EXCEPT ![p] = Tail(savers[p])]
    /\ UNCHANGED <<pipeVars, clock, saves, response, firstRun>>
    /\ UNCHANGED <<ghVars, docVars>>

SaverStep == \E p \in 1..2 : Upsert(p)

InitConcurrent ==
    /\ PipeIdle
    /\ config.mongo
    /\ StoreIdle
    /\ firstRun = NoRun
    /\ applied = <<>>
    /\ \E ds1, ds2 \in SeqsUpTo(ScrapedDocs, MaxBatch) \ {<<>>} :
          \E t1, t2 \in 0..MaxTime :
             /\ t1 <= t2
             /\ savers = <<Stamp(ds1, t1), Stamp(ds2, t2)>>
    /\ GhIdle
    /\ DocIdle

NextConcurrent == SaverStep

SpecConcurrent == InitConcurrent /\ [][NextConcurrent]_vars

(***************************************************************************)
(* update_one applied to documents one at a time: documents as /scrape     *)
(* stamps them and documents as fetch_architectures returns them.          *)
(***************************************************************************)
UpsertDocs == ScrapedDocs \cup {d @@ [created_at |-> t] : d \in ScrapedDocs, t \in 0..MaxTime}

\* mongo_save_many(<<d>>)
SaveOne ==
    /\ pc = "idle"
    /\ saves <= MaxSaves
    /\ \E d \in UpsertDocs :
          /\ store' = mongo_save_many(store, <<d>>, config.mongo)
          /\ applied' = LastWrites(applied, <<d>>, config.mongo)
    /\ saves' = saves + 1
    /\ UNCHANGED <<pipeVars, clock, response, firstRun, savers>>
    /\ UNCHANGED <<ghVars, docVars>>

InitUpsert ==
    /\ PipeIdle
    /\ config.mongo
    /\ StoreIdle
    /\ SessionIdle
    /\ GhIdle
    /\ DocIdle

NextUpsert == SaveOne

SpecUpsert == InitUpsert /\ [][NextUpsert]_vars

(***************************************************************************)
(* Properties.                                                             *)
(***************************************************************************)

\* C1: for every limit >= 1 and every list of sources, fetch_architectures
\* never holds, and so never returns, more than limit documents.
C1_BoundedOutput == limit >= 1 => Len(docs) <= limit

\* the run returned limit documents although there are more sources than limit
C1_Witness == pc = "done" /\ Len(sources) > limit /\ Len(docs) = limit

\* C2: whatever batches mongo_save_many was called with, no two documents of
\* the collection have the same (repo, quickstart_dir, template_file).
C2_NaturalKeyUnique ==
    \A i, j \in 1..Len(store) : NaturalKey(store[i]) = NaturalKey(store[j]) => i = j

\* two batches were saved and the second met the key of the first
C2_Witness == saves = 2 /\ Len(store) = 1

\* created_at left aside
WithoutCreatedAt(st) ==
    [i \in 1..Len(st) |-> [k \in DOMAIN st[i] \ {"created_at"} |-> st[i][k]]]

\* C3 as stated: a second run and save against the unchanged remote leaves
\* the collection as the first save left it, identical in every field.
C3_SecondSaveChangesNothing ==
    [][(saves >= 1 /\ saves' = saves + 1) => store' = store]_vars

\* C3 amended: a second run and save against the unchanged remote leaves the
\* same documents under the same keys, identical in every field but
\* created_at, and no duplicates.
C3_SecondSaveChangesOnlyCreatedAt ==
    [][(saves >= 1 /\ saves' = saves + 1) =>
        /\ WithoutCreatedAt(store') = WithoutCreatedAt(store)
        /\ \A i, j \in 1..Len(store') : NaturalKey(store'[i]) = NaturalKey(store'[j]) => i = j]_vars

\* the pipeline ran and saved twice, and the collection is not empty
C3_Witness == saves = 2 /\ Len(store) >= 2 /\ clock = 1

\* C4: a response that reports the rate limit (403, body mentions the rate
\* limit, reset header present) makes gh_get sleep until the reset and issue
\* the request exactly once more; only a failure of that retry is raised.
C4_RateLimitRetriesOnce ==
    (ghOut # NoCall /\ RateLimited(ghIn.r1) /\ ghIn.r1.reset # <<>>) =>
        /\ ghOut.requests = 2
        /\ ghOut.slept = WaitSeconds(ghIn.r1.reset[1], ghIn.now)
        /\ (ghOut.exc # "none" <=> (ghIn.r2.status = 0 \/ ghIn.r2.status >= 400))

\* C5: whenever _search_code_api raises, whatever the error, find_templates
\* raises nothing and returns what _walk_contents returns.
C5_AnySearchErrorFallsBack ==
    searchExc # "none" =>
        /\ ~(pc = "error" /\ reqs[Len(reqs)].api = "search")
        /\ (pc = "hit" /\ hitIdx = 1) => hits = whits

TopLevelTypes(arm) ==
    IF Has(arm, "resources")
    THEN {arm.resources[i].type :
            i \in {j \in 1..Len(arm.resources) :
                      Has(arm.resources[j], "type") /\ arm.resources[j].type # 0}}
    ELSE {}

\* C6: in a document built from an ARM template, services lists, ascending
\* and without duplicates, exactly the types of the top-level resources that
\* have one, and resource_count is the length of services.
C6_ServicesSortedDistinct ==
    (docOut # <<>> /\ ~Has(docIn.arm, "_raw")) =>
        LET d == docOut[1]
        IN  /\ \A i, j \in 1..Len(d.services) : i < j => d.services[i] < d.services[j]
            /\ SeqToSet(d.services) = TopLevelTypes(docIn.arm)
            /\ d.resource_count = Len(d.services)

\* a template with two typed resources out of order, one of them with children
C6_Witness ==
    /\ docOut # <<>>
    /\ Has(docIn.arm, "resources")
    /\ Len(docIn.arm.resources) = 2
    /\ Has(docIn.arm.resources[2], "resources")
    /\ docOut[1].services = <<1, 2>>

\* the directories that hold main.bicep and nothing else
OnlyMainBicep(d) ==
    \/ d.quickstart_dir = <<"qs", "a">> /\ rs.a = "bicep"
    \/ d.quickstart_dir = <<"qs", "b">> /\ rs.b = "bicep"

BicepText == KindFiles("bicep")[1].resp.data.text

C8_BicepOpaque ==
    (docOut # <<>> /\ Has(docIn.arm, "_raw")) =>
        /\ docOut[1].services = <<>>
        /\ docOut[1].resource_count = 0
        /\ docOut[1].arm_parameters_keys = <<>>
        /\ docOut[1].arm_outputs_keys = <<>>

\* a Bicep text that declares resources, with a sidecar beside it
C8_Witness ==
    /\ docOut # <<>>
    /\ Has(docIn.arm, "_raw")
    /\ docIn.arm["_raw"] # <<>>
    /\ IsDict(docIn.meta)

\* the content is a JSON object with a resources, parameters or $schema key
HasArmKey(content) ==
    /\ IsDict(content)
    /\ Has(content.obj, "resources") \/ Has(content.obj, "parameters")
            \/ Has(content.obj, "$schema")

CandidateOrder ==
    <<"azuredeploy.json", "main.json", "template.json",
      "main.bicep", "azuredeploy.bicep", "template.bicep">>

\* what the remote holds for candidate j of the current hit's directory
CandidateContent(j) == fetch_repo_content(Contents(rs, Append(QsDir, CandidateOrder[j])))

\* C9: an ARM candidate whose content is a JSON object with one of the keys
\* resources, parameters, $schema is accepted, whatever the value: none such
\* is among the candidates try_fetch_template has passed over.
C9_AnyArmKeyAccepted ==
    pc = "resolve" =>
        \A j \in 1..Min(candIdx - 1, 3) : ~HasArmKey(CandidateContent(j).val)

Valid(j) ==
    /\ CandidateContent(j).exc = "none"
    /\ IF j <= 3 THEN LooksLikeArm(CandidateContent(j).val)
       ELSE LooksLikeBicep(CandidateContent(j).val)

FetchedForHit == SubSeq(reqs, hitStart + 1, Len(reqs))

CandidateRequests(n) ==
    [j \in 1..n |-> ContentsRequest(Append(QsDir, CandidateOrder[j]))]

C10_Order ==
    /\ pc = "resolve" =>
          /\ FetchedForHit = CandidateRequests(candIdx - 1)
          /\ \A j \in 1..(candIdx - 1) : ~Valid(j)
    /\ pc = "meta" =>
          /\ FetchedForHit = CandidateRequests(candIdx)
          /\ cur.name = CandidateOrder[candIdx]
          /\ Valid(candIdx)
          /\ \A j \in 1..(candIdx - 1) : ~Valid(j)

C10_Step ==
    /\ pc = "meta" =>
          /\ reqs' = Append(reqs, ContentsRequest(Append(QsDir, "metadata.json")))
          /\ pc' \in {"hit", "done", "error"}
    /\ (pc = "resolve" /\ \A j \in 1..6 : CandidateContent(j).exc = "none" /\ ~Valid(j)) =>
          \/ pc' = "resolve" /\ candIdx' = candIdx + 1 /\ docs' = docs
          \/ /\ candIdx = 6
             /\ pc' = "hit"
             /\ hitIdx' = hitIdx + 1
             /\ docs' = docs
             /\ exc' = "none"

\* C10: try_fetch_template fetches the candidates in the order
\* azuredeploy.json, main.json, template.json, main.bicep, azuredeploy.bicep,
\* template.bicep and returns the first that validates: a Bicep file only
\* when no ARM candidate validates, nothing is fetched after the accepted
\* candidate but metadata.json, and when none validates the hit is skipped
\* without an error and the run goes on with the next hit.
C10_FirstValidCandidate == []C10_Order /\ [][C10_Step]_vars

\* a hit was skipped because none validated, and in the next source a Bicep
\* file is accepted after the three ARM candidates
C10_Witness == pc = "meta" /\ candIdx = 4 /\ srcIdx = 2 /\ docs = <<>>

\* the sidecar build_arch_doc was given: its object, or no object
SidecarGiven == IF IsDict(docIn.meta) THEN docIn.meta.obj ELSE <<>>

\* the value of key k of the sidecar, None when the key is not there
SidecarValue(k) == IF k \in DOMAIN SidecarGiven THEN SidecarGiven[k] ELSE None

LastSegment(qs_dir) == IF qs_dir = <<>> THEN "" ELSE qs_dir[Len(qs_dir)]

NameSources ==
    <<SidecarValue("itemDisplayName"), SidecarValue("title"), SidecarValue("name"),
      LastSegment(docIn.qs_dir), CONFIG_REPO>>

NonEmpty(v) == v # None /\ v # ""

FirstNonEmpty(vs) == vs[CHOOSE i \in 1..Len(vs) : NonEmpty(vs[i]) /\ \A j \in 1..(i - 1) : ~NonEmpty(vs[j])]

\* C11: the name of a built document is the first non-empty value among the
\* sidecar's itemDisplayName, title and name, the last segment of
\* quickstart_dir and the repository name; description is the sidecar's
\* description when that is non-empty, else the sidecar's summary, else null
\* (None) when the sidecar has no summary; metadata is the sidecar object as
\* given, or the empty object when there is no sidecar.
C11_NameDescriptionMetadata ==
    docOut # <<>> =>
        /\ docOut[1].name = FirstNonEmpty(NameSources)
        /\ docOut[1].description =
              IF NonEmpty(SidecarValue("description")) THEN SidecarValue("description")
              ELSE SidecarValue("summary")
        /\ docOut[1].metadata = SidecarGiven

\* a sidecar with itemDisplayName and title both set and an empty summary
C11_Witness ==
    /\ docOut # <<>>
    /\ IsDict(docIn.meta)
    /\ NonEmpty(SidecarValue("itemDisplayName"))
    /\ NonEmpty(SidecarValue("title"))
    /\ docOut[1].name = "Sample App"
    /\ docOut[1].description = ""

\* the step issued a request to the contents API
ContentFetch == Len(reqs') = Len(reqs) + 1 /\ reqs'[Len(reqs')].api = "contents"

\* what the remote answers to it
Answer == Contents(rs, reqs'[Len(reqs')].path)

\* after a not-found: the next candidate or, after the last one, the next hit;
\* the document without a sidecar; the next directory of the queue or, when
\* there is none, the hits found so far
GoesOn ==
    /\ pc' # "error" /\ exc' = "none"
    /\ pc = "resolve" =>
          /\ docs' = docs
          /\ IF candIdx < 6 THEN pc' = "resolve" /\ candIdx' = candIdx + 1 /\ hitIdx' = hitIdx
             ELSE pc' = "hit" /\ hitIdx' = hitIdx + 1
    /\ pc = "meta" =>
          /\ Len(docs') = Len(docs) + 1
          /\ docs'[Len(docs')].metadata = <<>>
          /\ docs'[Len(docs')].template_file = cur.name
          /\ pc' \in {"hit", "done"}
    /\ pc = "walk" =>
          /\ queue' = Tail(queue)
          /\ whits' = whits
          /\ IF Tail(queue) = <<>> THEN pc' = "hit" /\ hits' = whits ELSE pc' = "walk"

C12_Step ==
    ContentFetch =>
        /\ Answer.status = 404 =>
              /\ fetch_repo_content(Answer) = [exc |-> "none", val |-> [kind |-> "none"]]
              /\ GoesOn
        /\ Answer.status \in {401, 403, 500} =>
              /\ fetch_repo_content(Answer).exc = "HTTPError"
              /\ pc' = "error" /\ exc' = "HTTPError" /\ docs' = docs

\* C12: a fetch of a path the remote answers with 404 (a template candidate,
\* metadata.json, a directory of the walk) raises nothing, fetch_repo_content
\* returns None, and the run goes on with the next candidate, hit or
\* directory; with any other failure status fetch_repo_content raises and
\* the error leaves the run.
C12_NotFoundIsNotAnError == [][C12_Step]_vars

\* the walk of a missing subdirectory got 404, the next source gave a
\* document after 404 for candidates and for metadata.json, the run returned
C12_Witness ==
    /\ pc = "done"
    /\ Len(docs) = 1
    /\ Len(reqs) > 2
    /\ reqs[1] = ContentsRequest(<<"qs", "gone">>)
    /\ Contents(rs, reqs[Len(reqs)].path).status = 404
    /\ cur.name = "main.bicep"

\* what find_templates returned for the current source: the hits of the walk,
\* or the deduplicated results of the search
Walked == config.force \/ ~config.token \/ searchExc # "none"

LocatorResult ==
    IF Walked THEN whits ELSE Dedupe(results, <<>>, PerSource(limit, sources))

C13_SameResult ==
    (firstRun # NoRun /\ pc \in {"done", "error"}) =>
        /\ pc = firstRun.pc
        /\ exc = firstRun.exc
        /\ docs = firstRun.docs

C13_Step ==
    firstRun' = firstRun =>
        /\ srcIdx' \in {srcIdx, srcIdx + 1}
        /\ pc \in {"hit", "resolve", "meta"} =>
              /\ hits = LocatorResult
              /\ srcIdx' = srcIdx => hits' = hits /\ hitIdx' \in {hitIdx, hitIdx + 1}
        /\ docs' # docs =>
              /\ Len(docs') = Len(docs) + 1
              /\ SubSeq(docs', 1, Len(docs)) = docs
              /\ docs'[Len(docs')].repo = <<sources[srcIdx].owner, sources[srcIdx].repo>>
              /\ docs'[Len(docs')].quickstart_dir =
                    infer_dir_from_path(LocatorResult[hitIdx].path)

StoredUnder(k) == WithoutId(store[CHOOSE i \in 1..Len(store) : NaturalKey(store[i]) = k])

\* C14: while two /scrape requests save with their update_one calls
\* interleaved in any order, the collection never holds two documents of one
\* natural key, and the document stored under a key is, field for field, the
\* document of the last update_one applied for that key.
C14_LastWriteWins ==
    /\ \A i, j \in 1..Len(store) : NaturalKey(store[i]) = NaturalKey(store[j]) => i = j
    /\ {NaturalKey(store[i]) : i \in 1..Len(store)} = DOMAIN applied
    /\ \A k \in DOMAIN applied : StoredUnder(k) = applied[k]

\* both savers are half way, both wrote the same key, and the later request
\* wrote first: the document stored is the one of the earlier request
C14_Witness ==
    /\ Len(savers) = 2
    /\ Len(savers[1]) = 1
    /\ Len(savers[2]) = 1
    /\ savers[2][1].created_at = 1
    /\ Len(store) = 1
    /\ store[1].created_at = 0

\* C15: after update_one with a document d the document stored under d's
\* natural key has exactly the fields and values of d; no field of the
\* document stored before that d does not have is left.
C15_FullyReplaces ==
    \A i \in 1..Len(store) :
        /\ DOMAIN store[i] \ {"_id"} = DOMAIN applied[NaturalKey(store[i])]
        /\ \A f \in DOMAIN applied[NaturalKey(store[i])] :
              store[i][f] = applied[NaturalKey(store[i])][f]

\* max(1, limit div numberOfSources)
Quota == IF limit \div Len(sources) >= 1 THEN limit \div Len(sources) ELSE 1

InHitLoop == pc \in {"hit", "resolve", "meta"}

\* what the locator gave the current source is within the quota
C16_Quota == InHitLoop => Len(hits) <= Quota /\ hitIdx <= Len(hits) + 1

\* with limit documents the run has returned
C16_Stop == Len(docs) >= limit => pc = "done"

\* a document comes from one hit of the current source, a hit gives at most
\* one document, and after the return nothing more is requested
C16_Step ==
    /\ docs' # docs =>
          /\ pc = "meta"
          /\ Len(docs') = Len(docs) + 1
          /\ hitIdx <= Quota
          /\ pc' = "done" \/ (srcIdx' = srcIdx /\ hitIdx' = hitIdx + 1)
    /\ (InHitLoop /\ srcIdx' = srcIdx) => hitIdx' >= hitIdx /\ hits' = hits
    /\ pc = "done" => reqs' = reqs /\ docs' = docs

\* C16: every source is asked for at most max(1, limit div numberOfSources)
\* hits and gives at most that many documents, whatever the sources before
\* it gave; and as soon as limit documents are there the run returns and
\* issues no further request.
C16_PerSourceQuota == []C16_Quota /\ []C16_Stop /\ [][C16_Step]_vars

\* limit 2 and two sources: the first gave nothing, the second, the root
\* with its three directories of templates, gave its one document, and the
\* run returned one document short of limit
C16_Witness ==
    /\ pc = "done"
    /\ limit = 2
    /\ sources = <<Source(<<(<<"qs", "gone">>)>>), Source(<<>>)>>
    /\ rs.a = "arm"
    /\ rs.b = "arm"
    /\ Len(docs) = 1

SixNames ==
    {"azuredeploy.json", "main.json", "template.json",
     "main.bicep", "azuredeploy.bicep", "template.bicep"}

\* the entries the remote lists for a directory, none when it is not there
ListedItems(dir) ==
    IF Contents(rs, dir).status = 200 /\ Contents(rs, dir).data.kind = "list"
    THEN Contents(rs, dir).data.items
    ELSE <<>>

\* the template files and the subdirectories of a listing, in its order
RECURSIVE TemplatesIn(_)
TemplatesIn(items) ==
    IF items = <<>> THEN <<>>
    ELSE IF Head(items).type = "file" /\ Head(items).name \in SixNames
    THEN <<[path |-> Head(items).path]>> \o TemplatesIn(Tail(items))
    ELSE TemplatesIn(Tail(items))

RECURSIVE SubdirsIn(_)
SubdirsIn(items) ==
    IF items = <<>> THEN <<>>
    ELSE IF Head(items).type = "dir" THEN <<Head(items).path>> \o SubdirsIn(Tail(items))
    ELSE SubdirsIn(Tail(items))

WalkRoot == IF sources[srcIdx].subdir = <<>> THEN <<>> ELSE sources[srcIdx].subdir[1]

C17_Bound == pc = "walk" => Len(whits) < Quota /\ queue # <<>>

C17_Step ==
    /\ (pc # "walk" /\ pc' = "walk") => queue' = <<WalkRoot>> /\ whits' = <<>>
    /\ pc = "walk" =>
          LET found == whits \o TemplatesIn(ListedItems(Head(queue)))
          IN  /\ reqs' = Append(reqs, ContentsRequest(Head(queue)))
              /\ whits' = SubSeq(found, 1, IF Len(found) < Quota THEN Len(found) ELSE Quota)
              /\ Len(found) < Quota =>
                    queue' = Tail(queue) \o SubdirsIn(ListedItems(Head(queue)))
              /\ IF queue' = <<>> \/ Len(whits') >= Quota
                 THEN pc' = "hit" /\ hits' = whits'
                 ELSE pc' = "walk"

FirstSeen(i) == CHOOSE n \in 1..Len(results) :
                    /\ results[n].path = hits[i].path
                    /\ \A m \in 1..(n - 1) : results[m].path # hits[i].path

\* what _search_code_api returned: distinct paths of results, in the order
\* in which results first has them, at most limit
C18_Returned ==
    (pc = "hit" /\ hitIdx = 1 /\ ~Walked) =>
        /\ Len(hits) <= Quota
        /\ \A i \in 1..Len(hits) : \E n \in 1..Len(results) : results[n].path = hits[i].path
        /\ \A i, j \in 1..Len(hits) : i < j =>
              hits[i].path # hits[j].path /\ FirstSeen(i) < FirstSeen(j)

C18_Pages == \A n \in 1..Len(reqs) : reqs[n].api = "search" => reqs[n].page <= 10

\* with limit results collected no search request follows
C18_Step == (pc = "search" /\ Len(results) >= Quota) => reqs' = reqs

\* C18: _search_code_api returns pairwise distinct paths in first-seen
\* order, at most limit of them, requests no page beyond the tenth, and
\* issues no search request once limit results have been collected.
C18_SearchStopsAtLimit == []C18_Returned /\ []C18_Pages /\ [][C18_Step]_vars

Ended == pc \in {"done", "error"}

\* the requests a run can need: for every source, six filenames on ten pages
\* of the search, one listing for every directory of the tree, and six
\* candidates and one sidecar for every hit within the quota
RequestBudget == Len(sources) * (6 * 10 + Cardinality(Dirs) + Quota * (6 + 1))

\* how far a run has got: every step issues a request, or enters a loop
\* (source to locator, hit to candidates), or passes to the next source
Rank ==
    CASE pc = "source" -> 0
      [] pc \in {"search", "walk", "hit"} -> 1
      [] pc = "resolve" -> 2
      [] OTHER -> 3

Progress == 4 * Len(reqs) + 4 * srcIdx + Rank

C19_Budget == Len(reqs) <= RequestBudget /\ srcIdx <= Len(sources) + 1

\* the run is at a loop head or before a request, and what its next step
\* reads is there
CanStep ==
    CASE pc = "source" -> srcIdx >= 1
      [] pc = "search" -> srcIdx \in 1..Len(sources) /\ fnIdx \in 1..6 /\ page \in 1..10
      [] pc = "walk" -> srcIdx \in 1..Len(sources) /\ queue # <<>>
      [] pc = "hit" -> hitIdx >= 1
      [] pc = "resolve" -> hitIdx \in 1..Len(hits) /\ candIdx \in 1..6
      [] pc = "meta" -> hitIdx \in 1..Len(hits) /\ srcIdx \in 1..Len(sources)
      [] OTHER -> FALSE

\* a run that has not ended has a next step, and every step is progress
C19_Live == Ended \/ CanStep

C19_Step == Progress' > Progress

\* C19: a run of fetch_architectures against the finite tree that has not
\* returned or raised always has a next step, every step takes it further,
\* and the requests it can issue are bounded by the sources, the ten pages
\* of the search, the directories of the tree and the quota of hits: every
\* run ends, by returning or by raising, also when the search finds nothing.
C19_Terminates == []C19_Live /\ []C19_Budget /\ [][C19_Step]_vars

\* the search found nothing for either source: ten pages of six filenames
\* each, then the run returned no document
C19_Witness ==
    /\ pc = "done"
    /\ docs = <<>>
    /\ ~Walked
    /\ Len(sources) = 2
    /\ Len(reqs) = 120
    /\ reqs[120].page = 10

\* C20: the documents of one run have pairwise different
\* (repo, quickstart_dir, template_file), also when several hits of the
\* locator lie in the same directory.
C20_DistinctKeysInRun ==
    \A i, j \in 1..Len(docs) : NaturalKey(docs[i]) = NaturalKey(docs[j]) => i = j

====
